---- MODULE Spec2Model ----
(***************************************************************************)
(* pgsqlinfo: PgInfoService (src/src/index.ts).                            *)
(*                                                                         *)
(* The service runs catalog statements through PgInfoService.query, which  *)
(* checks a client out of the pool, executes one statement, releases the   *)
(* client and logs / rethrows failures.  The pool, the client and the      *)
(* logger are collaborators: each of their calls either succeeds or        *)
(* throws, chosen nondeterministically.  The statements on                 *)
(* information_schema.schemata are evaluated over a modelled catalog;      *)
(* the other statements return an opaque row sequence.                     *)
(*                                                                         *)
(* Strings that the code inspects character by character (database name,   *)
(* schema names, LIKE patterns) are sequences of one-character strings.    *)
(***************************************************************************)
EXTENDS Integers, Sequences, FiniteSets, TLC

VARIABLES svc, db, calls, enr, witnessed

vars == <<svc, db, calls, enr, witnessed>>

\* ------------------------------------------------------------------ bounds

\* longest database name handed to the constructor
MaxNameLen == 2

\* longest column-row sequence handed to appendArrayDimension
MaxCols == 2

\* longest probe-row sequence handed to appendArrayDimension
MaxProbes == 2

\* number of call slots (callers that may hold a public call in flight)
MaxCalls == 2

CallIds == 1..MaxCalls

\* the caller of Spec: it awaits each public call before it makes the next
Sequential == {1}

\* --------------------------------------------------------------- constants

Null == "null"

pgMsgDbQueryError == "DB query error"
pgMsgDbConnError == "DB connection error"

\* error values produced by the collaborators and by the service
ConnErrors == {"ECONNREFUSED"}
ExecErrors == {"relation does not exist"}
ReleaseFailure == "release failed"
LoggerFailure == "logger failed"
InvalidDbNameError == "invalid database name"
InvalidCatalogError == "invalid catalog"

\* names used by the code and by the catalog
pg_catalog == <<"p","g","_","c","a","t","a","l","o","g">>
information_schema == <<"i","n","f","o","r","m","a","t","i","o","n","_","s","c","h","e","m","a">>
public == <<"p","u","b","l","i","c">>
pgboss == <<"p","g","b","o","s","s">>
does_not_exist == <<"d","o","e","s","_","n","o","t","_","e","x","i","s","t">>

\* the database the pool is connected to
PoolDb == <<"d">>

\* characters a database name is built from
NameChars == {"d", " ", "\t"}

\* String.prototype.trim strips these (the ones that occur in NameChars)
WhiteSpace == {" ", "\t", "\n", "\r"}

\* byte order of the characters that occur in schema names
CharOrder == <<"_","a","b","c","d","e","f","g","h","i","j","k","l","m",
               "n","o","p","q","r","s","t","u","v","w","x","y","z">>

CharCode(ch) == CHOOSE i \in 1..Len(CharOrder) : CharOrder[i] = ch

\* ----------------------------------------------------------- pure helpers

RECURSIVE SeqsUpTo(_, _)
SeqsUpTo(S, n) ==
  IF n = 0 THEN {<<>>}
  ELSE LET shorter == SeqsUpTo(S, n - 1)
       IN shorter \cup {Append(s, x) : s \in shorter, x \in S}

Range(s) == {s[i] : i \in 1..Len(s)}

\* String.prototype.trim
RECURSIVE trimStart(_)
trimStart(s) ==
  IF s # <<>> /\ Head(s) \in WhiteSpace THEN trimStart(Tail(s)) ELSE s

RECURSIVE trimEnd(_)
trimEnd(s) ==
  IF s # <<>> /\ s[Len(s)] \in WhiteSpace
  THEN trimEnd(SubSeq(s, 1, Len(s) - 1))
  ELSE s

trim(s) == trimEnd(trimStart(s))

\* JavaScript truthiness of the value held by dbErr: null or an Error object
Truthy(v) == v # Null

\* SQL: s LIKE p, where _ matches one character and % any run of characters
RECURSIVE Like(_, _)
Like(s, p) ==
  IF p = <<>> THEN s = <<>>
  ELSE IF Head(p) = "%"
       THEN Like(s, Tail(p)) \/ (s # <<>> /\ Like(Tail(s), p))
       ELSE /\ s # <<>>
            /\ (Head(p) = "_" \/ Head(p) = Head(s))
            /\ Like(Tail(s), Tail(p))

\* SQL: a < b on names, byte-wise
RECURSIVE NameLess(_, _)
NameLess(a, b) ==
  IF b = <<>> THEN FALSE
  ELSE IF a = <<>> THEN TRUE
  ELSE IF Head(a) = Head(b) THEN NameLess(Tail(a), Tail(b))
  ELSE CharCode(Head(a)) < CharCode(Head(b))

\* SQL: ORDER BY schema_name
RECURSIVE OrderBySchemaName(_)
OrderBySchemaName(S) ==
  IF S = {} THEN <<>>
  ELSE LET m == CHOOSE x \in S :
                  \A y \in S \ {x} : NameLess(x.schema_name, y.schema_name)
       IN <<m>> \o OrderBySchemaName(S \ {m})

\* ------------------------------------------------------------- statements

\* WHERE clause of sqlSelectSchemataAll
WhereSchemataAll(r, p1) == r.catalog_name = p1

\* mutant of WhereSchemata: the NOT LIKE 'pg_%' condition is missing
WhereSchemata_NoLike(r, p1) ==
  /\ r.catalog_name = p1
  /\ r.schema_name # information_schema

\* WHERE clause of sqlSelectSchemata
WhereSchemata(r, p1) ==
  /\ r.catalog_name = p1
  /\ r.schema_name # information_schema
  /\ ~Like(r.schema_name, <<"p","g","_","%">>)

sqlSelectSchemataAll(table, values) ==
  OrderBySchemaName({r \in table : WhereSchemataAll(r, values[1])})

sqlSelectSchemata(table, values) ==
  OrderBySchemaName({r \in table : WhereSchemata(r, values[1])})

\* the statement text of sqlSelectTypes(catalog): the name is interpolated
sqlSelectTypes(catalog) ==
  [text |-> "sqlSelectTypes", catalog |-> catalog, values |-> <<>>]

Statement(text, values) == [text |-> text, catalog |-> <<>>, values |-> values]

\* one column of the connected database as the system catalogs hold it:
\* information_schema.columns joined with pg_class.relkind and
\* pg_attribute.attndims (dimension counts are written as strings)
CatalogColumn(schema, table, column, relkind, attndims) ==
  [table_catalog |-> PoolDb, table_schema |-> schema, table_name |-> table,
   column_name |-> column, relkind |-> relkind, attndims |-> attndims]

\* the columns of the database: tables t and u and a view v in public, and a
\* table t in pgboss
ColumnCatalog ==
  {CatalogColumn(public, <<"t">>, <<"a">>, "r", "1"),
   CatalogColumn(public, <<"t">>, <<"b">>, "r", "0"),
   CatalogColumn(public, <<"u">>, <<"a">>, "r", "2"),
   CatalogColumn(public, <<"v">>, <<"a">>, "v", "1"),
   CatalogColumn(pgboss, <<"t">>, <<"a">>, "r", "3")}

\* a PgColumn row: array_dimension is null from the column query
ColRecord(schema, table, column, dim) ==
  [table_catalog |-> PoolDb, table_schema |-> schema, table_name |-> table,
   column_name |-> column, array_dimension |-> dim]

\* a PgTableArrayColumn row
ArrInfoRecord(table, column, dim) ==
  [table_name |-> table, column_name |-> column, array_dimension |-> dim]

\* SELECT cols.*, ..., null AS array_dimension
SelectColumn(r) == ColRecord(r.table_schema, r.table_name, r.column_name, Null)

\* SELECT relname AS table_name, attname AS column_name, attndims AS array_dimension
SelectArrayColumn(r) == ArrInfoRecord(r.table_name, r.column_name, r.attndims)

\* WHERE clause of sqlSelectColumns
WhereColumns(r, p1, p2) == r.table_catalog = p1 /\ r.table_schema = p2

\* WHERE clause of sqlSelectColumnsByTable without its table_name condition
WhereColumnsByTable_NoTable(r, p1, p2, p3) ==
  r.table_catalog = p1 /\ r.table_schema = p2

\* WHERE clause of sqlSelectColumnsByTable
WhereColumnsByTable(r, p1, p2, p3) ==
  r.table_catalog = p1 /\ r.table_schema = p2 /\ r.table_name = p3

\* join and WHERE conditions of sqlSelectTablesWithArrayColumns
WhereArrayColumns(r, p1) ==
  r.attndims # "0" /\ r.relkind = "r" /\ r.table_schema = p1

\* ORDER BY cols.table_name, cols.column_name
ColumnLess(x, y) ==
  \/ NameLess(x.table_name, y.table_name)
  \/ x.table_name = y.table_name /\ NameLess(x.column_name, y.column_name)

RECURSIVE OrderByTableColumn(_)
OrderByTableColumn(S) ==
  IF S = {} THEN <<>>
  ELSE LET m == CHOOSE x \in S : \A y \in S \ {x} : ColumnLess(x, y)
       IN <<m>> \o OrderByTableColumn(S \ {m})

\* a statement without ORDER BY returns its rows in any order
AnyOrder(S) ==
  {f \in [1..Cardinality(S) -> S] :
     \A i, j \in 1..Cardinality(S) : f[i] = f[j] => i = j}

sqlSelectColumns(values) ==
  OrderByTableColumn({SelectColumn(r) : r \in
     {x \in ColumnCatalog : WhereColumns(x, values[1], values[2])}})

\* within one table ORDER BY cols.column_name is the order of ColumnLess
sqlSelectColumnsByTable(values) ==
  OrderByTableColumn({SelectColumn(r) : r \in
     {x \in ColumnCatalog : WhereColumnsByTable(x, values[1], values[2], values[3])}})

sqlSelectTablesWithArrayColumns(values) ==
  AnyOrder({SelectArrayColumn(r) : r \in
     {x \in ColumnCatalog : WhereArrayColumns(x, values[1])}})

\* row sequences an opaque statement (pg_type, domains, raw text) may return
OpaqueResults == {<<>>, <<"r1", "r2">>, <<"r2", "r1">>}

\* what the connection returns for a statement that executes successfully
ResultsOf(stmt, table) ==
  CASE stmt.text = "sqlSelectSchemataAll" -> {sqlSelectSchemataAll(table, stmt.values)}
    [] stmt.text = "sqlSelectSchemata" -> {sqlSelectSchemata(table, stmt.values)}
    [] stmt.text = "sqlSelectColumns" -> {sqlSelectColumns(stmt.values)}
    [] stmt.text = "sqlSelectColumnsByTable" -> {sqlSelectColumnsByTable(stmt.values)}
    [] stmt.text = "sqlSelectTablesWithArrayColumns" ->
         sqlSelectTablesWithArrayColumns(stmt.values)
    [] OTHER -> OpaqueResults

\* ------------------------------------------------- PgInfoService.query, pure

\* the bookkeeping of one invocation of query(): let rows = [], dbErr = null
NewQuery(stmt) ==
  [stmt |-> stmt, connects |-> 0, checkouts |-> 0, execs |-> 0, releases |-> 0,
   log |-> <<>>, connErr |-> Null, execErr |-> Null, releaseThrew |-> FALSE,
   connRows |-> <<>>, rows |-> <<>>, dbErr |-> Null,
   outcome |-> "pending", error |-> Null]

\* this._logger.error(tag, err)
LoggerError(q, tag) == [q EXCEPT !.log = Append(@, tag)]

\* client.release(), in the finally block
Release(q) == [q EXCEPT !.releases = @ + 1]

\* mutant of OuterCatch: the error is rethrown without being logged
OuterCatch_Silent(q, err, logThrows) ==
  [q EXCEPT !.dbErr = err, !.outcome = "raised", !.error = err]

\* outer catch: dbErr = err; log the connection tag; throw err.
\* A logger that throws replaces err.
OuterCatch(q, err, logThrows) ==
  LET q1 == LoggerError([q EXCEPT !.dbErr = err], pgMsgDbConnError)
  IN [q1 EXCEPT !.outcome = "raised",
                !.error = IF logThrows THEN LoggerFailure ELSE err]

\* mutant of InnerCatch: the statement failure is logged with the connection tag
InnerCatch_WrongTag(q, err) ==
  LoggerError([q EXCEPT !.dbErr = err], pgMsgDbConnError)

\* inner catch: dbErr = err; log the query tag
InnerCatch(q, err) ==
  LoggerError([q EXCEPT !.dbErr = err], pgMsgDbQueryError)

\* if (dbErr) throw dbErr; return rows;
QueryTail(q) ==
  IF Truthy(q.dbErr)
  THEN [q EXCEPT !.outcome = "raised", !.error = q.dbErr]
  ELSE [q EXCEPT !.outcome = "returned"]

\* rows = result.rows
AssignRows(resultRows) == resultRows

\* pool.connect() rejected with err
ConnectRejected(q, err, logThrows) ==
  OuterCatch([q EXCEPT !.connErr = err], err, logThrows)

\* mutant of ExecResolved: no release on the success path (no finally)
ExecResolved_NoRelease(q, resultRows, releaseThrows, logThrows) ==
  QueryTail([q EXCEPT !.connRows = resultRows, !.rows = AssignRows(resultRows)])

\* client.query() resolved with resultRows; then finally, then the tail
ExecResolved(q, resultRows, releaseThrows, logThrows) ==
  LET q1 == [q EXCEPT !.connRows = resultRows, !.rows = AssignRows(resultRows)]
      q2 == [Release(q1) EXCEPT !.releaseThrew = releaseThrows]
  IN IF releaseThrows
     THEN OuterCatch(q2, ReleaseFailure, logThrows)
     ELSE QueryTail(q2)

\* mutant of ExecRejected: release only on the success path (no finally)
ExecRejected_NoRelease(q, err, logThrows1, releaseThrows, logThrows2) ==
  LET q1 == InnerCatch([q EXCEPT !.execErr = err], err)
  IN IF logThrows1
     THEN OuterCatch(q1, LoggerFailure, logThrows2)
     ELSE QueryTail(q1)

\* client.query() rejected with err; inner catch, finally, then outer catch
\* when the logger or release threw, else the tail
ExecRejected(q, err, logThrows1, releaseThrows, logThrows2) ==
  LET q1 == InnerCatch([q EXCEPT !.execErr = err], err)
      q2 == [Release(q1) EXCEPT !.releaseThrew = releaseThrows]
      pending == IF releaseThrows THEN ReleaseFailure
                 ELSE IF logThrows1 THEN LoggerFailure
                 ELSE Null
  IN IF pending # Null
     THEN OuterCatch(q2, pending, logThrows2)
     ELSE QueryTail(q2)

\* ------------------------------ PgSchemaService.appendArrayDimension, pure

\* find() matching on column_name alone
FindColRecord_ColumnOnly(colRecords, arrInfoRecord) ==
  LET hits == {i \in 1..Len(colRecords) :
                 colRecords[i].column_name = arrInfoRecord.column_name}
  IN IF hits = {} THEN 0 ELSE CHOOSE i \in hits : \A j \in hits : i <= j

\* colRecords.find(c => c.table_name === arr.table_name
\*                   && c.column_name === arr.column_name):
\* the index of the first such row, 0 when there is none
FindColRecord(colRecords, arrInfoRecord) ==
  LET hits == {i \in 1..Len(colRecords) :
                 /\ colRecords[i].table_name = arrInfoRecord.table_name
                 /\ colRecords[i].column_name = arrInfoRecord.column_name}
  IN IF hits = {} THEN 0 ELSE CHOOSE i \in hits : \A j \in hits : i <= j

\* an assignment that accumulates onto a dimension already present
AssignDimension_Accumulate(colRecord, arrInfoRecord) ==
  [colRecord EXCEPT !.array_dimension =
     IF @ = Null THEN arrInfoRecord.array_dimension
     ELSE @ \o "+" \o arrInfoRecord.array_dimension]

\* colRecord.array_dimension = arrInfoRecord.array_dimension
AssignDimension(colRecord, arrInfoRecord) ==
  [colRecord EXCEPT !.array_dimension = arrInfoRecord.array_dimension]

\* an iteration that adds a row for a probe row it cannot place
EnrichOne_PushUnmatched(colRecords, arrInfoRecord) ==
  LET i == FindColRecord(colRecords, arrInfoRecord)
  IN IF i # 0
     THEN [colRecords EXCEPT ![i] = AssignDimension(colRecords[i], arrInfoRecord)]
     ELSE Append(colRecords,
                 [table_catalog |-> Null, table_schema |-> Null,
                  table_name |-> arrInfoRecord.table_name,
                  column_name |-> arrInfoRecord.column_name,
                  array_dimension |-> arrInfoRecord.array_dimension])

\* an iteration that assigns to every row with the probe's key (filter, not find)
EnrichOne_AllMatches(colRecords, arrInfoRecord) ==
  [i \in 1..Len(colRecords) |->
     IF /\ colRecords[i].table_name = arrInfoRecord.table_name
        /\ colRecords[i].column_name = arrInfoRecord.column_name
     THEN AssignDimension(colRecords[i], arrInfoRecord)
     ELSE colRecords[i]]

\* one iteration of the for loop: find, and assign if found
EnrichOne(colRecords, arrInfoRecord) ==
  LET i == FindColRecord(colRecords, arrInfoRecord)
  IN IF i # 0
     THEN [colRecords EXCEPT ![i] = AssignDimension(colRecords[i], arrInfoRecord)]
     ELSE colRecords

\* for (const arrInfoRecord of arrInfoRecords) { ... }: colRecords afterwards
RECURSIVE appendArrayDimension(_, _)
appendArrayDimension(colRecords, arrInfoRecords) ==
  IF arrInfoRecords = <<>> THEN colRecords
  ELSE appendArrayDimension(EnrichOne(colRecords, Head(arrInfoRecords)),
                            Tail(arrInfoRecords))

\* ------------------------------------------------------------ public calls

IdleCall ==
  [op |-> "none", arg |-> <<>>, schemaName |-> <<>>, tableName |-> <<>>,
   colRecords |-> <<>>, pc |-> "idle", phase |-> "none",
   cur |-> NewQuery(Statement("none", <<>>)), qhist |-> <<>>,
   outcome |-> "none", result |-> <<>>, error |-> Null]

\* query() up to its first await: pool.connect() has been invoked
StartQuery(call, stmt, phase) ==
  [call EXCEPT !.pc = "connect", !.phase = phase,
               !.cur = [NewQuery(stmt) EXCEPT !.connects = 1]]

\* mutant of InvalidDbName: the name is compared without trim()
InvalidDbName_NoTrim(dbName) == dbName = <<>>

\* constructor guard
InvalidDbName(dbName) == trim(dbName) = <<>>

\* types(): let isValidCatalog = catalog === 'pg_catalog'
IsDefaultCatalog(catalog) == catalog = pg_catalog

\* mutant of SchemaFound: find(s => s.schema_name = catalog), an assignment,
\* which is truthy for the first row
SchemaFound_Assign(schemata, catalog) == schemata # <<>> /\ catalog # <<>>

\* types(): !!schemata.find(s => s.schema_name === catalog)
SchemaFound(schemata, catalog) ==
  \E i \in 1..Len(schemata) : schemata[i].schema_name = catalog

\* the public call ends by raising err
Raise(call, err) ==
  [call EXCEPT !.pc = "done", !.outcome = "raised", !.error = err]

\* the public call ends by returning rows
Return(call, rows) ==
  [call EXCEPT !.pc = "done", !.outcome = "returned", !.result = rows]

\* mutant of TypesAfterLookup: the name is looked up among the user schemas
\* only (the rows schemata() would keep), so a listed reserved schema is refused
TypesAfterLookup_UserSchemasOnly(call, schemata) ==
  IF ~\E i \in 1..Len(schemata) :
        /\ schemata[i].schema_name = call.arg
        /\ WhereSchemata(schemata[i], schemata[i].catalog_name)
  THEN Raise(call, InvalidCatalogError)
  ELSE StartQuery(call, sqlSelectTypes(call.arg), "main")

\* types() after schemataAll() returned
TypesAfterLookup(call, schemata) ==
  IF ~SchemaFound(schemata, call.arg)
  THEN Raise(call, InvalidCatalogError)
  ELSE StartQuery(call, sqlSelectTypes(call.arg), "main")

\* PgSchemaService.arrayColumns(): the probe for array columns of the schema
ArrayColumns(call) ==
  StartQuery(call, Statement("sqlSelectTablesWithArrayColumns", <<call.schemaName>>),
             "probe")

\* columns(): colRecords is bound to the rows of the column query, then
\* arrayColumns() is called
ColumnsAfterMain(call, rows) ==
  ArrayColumns([call EXCEPT !.colRecords = rows])

\* columns(): arrInfoRecords has arrived; appendArrayDimension, return colRecords
ColumnsAfterProbe(call, arrInfoRecords) ==
  LET enriched == appendArrayDimension(call.colRecords, arrInfoRecords)
  IN Return([call EXCEPT !.colRecords = enriched], enriched)

\* what a public call does with the rows its query() returned
Continue(call, rows) ==
  IF call.op = "types" /\ call.phase = "lookup" THEN TypesAfterLookup(call, rows)
  ELSE IF call.phase = "cols" THEN ColumnsAfterMain(call, rows)
  ELSE IF call.phase = "probe" THEN ColumnsAfterProbe(call, rows)
  ELSE Return(call, rows)

\* mutant of Resume: types() catches a failed schemataAll() and reports the
\* catalog as invalid
Resume_LookupFailureIsInvalid(call, q) ==
  LET c1 == [call EXCEPT !.qhist = Append(@, q), !.cur = IdleCall.cur]
  IN IF q.outcome = "raised"
     THEN IF call.op = "types" /\ call.phase = "lookup"
          THEN Raise(c1, InvalidCatalogError)
          ELSE Raise(c1, q.error)
     ELSE Continue(c1, q.rows)

\* mutant of Resume: columns() catches a failed arrayColumns() and returns
\* the column rows as they are
Resume_ProbeFailureReturnsRows(call, q) ==
  LET c1 == [call EXCEPT !.qhist = Append(@, q), !.cur = IdleCall.cur]
  IN IF q.outcome = "raised"
     THEN IF call.phase = "probe"
          THEN Return(c1, c1.colRecords)
          ELSE Raise(c1, q.error)
     ELSE Continue(c1, q.rows)

\* mutant of Resume: columns() catches a failed column query and goes on to
\* the probe with no rows
Resume_ProbeAfterFailedMain(call, q) ==
  LET c1 == [call EXCEPT !.qhist = Append(@, q), !.cur = IdleCall.cur]
  IN IF q.outcome = "raised"
     THEN IF call.phase = "cols"
          THEN ColumnsAfterMain(c1, <<>>)
          ELSE Raise(c1, q.error)
     ELSE Continue(c1, q.rows)

\* an invocation of query() has completed as q: the caller resumes
Resume(call, q) ==
  LET c1 == [call EXCEPT !.qhist = Append(@, q), !.cur = IdleCall.cur]
  IN IF q.outcome = "raised" THEN Raise(c1, q.error)
     ELSE Continue(c1, q.rows)

\* ------------------------------------------------------------------ state

SchemaRow(name) == [catalog_name |-> PoolDb, schema_name |-> name]

\* the rows information_schema.schemata may hold
SchemataUniverse ==
  {SchemaRow(public), SchemaRow(information_schema),
   SchemaRow(pg_catalog), SchemaRow(pgboss)}

\* schema names handed to schema()
SchemaArgs == {public, pgboss}

\* catalog arguments handed to types()
CatalogArgs == {pg_catalog, information_schema, public, does_not_exist}

\* appendArrayDimension called on its own: the arguments, the rows as they
\* were handed in (input, probes), the column rows as the first run left them
\* (first), and how often the function has run on them
Enrichment(colRecords, arrInfoRecords) ==
  [colRecords |-> colRecords, arrInfoRecords |-> arrInfoRecords,
   input |-> colRecords, probes |-> arrInfoRecords, first |-> <<>>,
   runs |-> 0]

NoEnrichment == Enrichment(<<>>, <<>>)

\* keys and values of the rows handed to appendArrayDimension
TableNames == {<<"t">>, <<"u">>}
ColumnNames == {<<"a">>, <<"b">>}
EnrichKeys == {<<<<"t">>, <<"a">>>>, <<<<"t">>, <<"b">>>>, <<<<"u">>, <<"a">>>>}

\* column rows handed to appendArrayDimension: null, or a dimension left by
\* an earlier run
ColRecordInputs ==
  {ColRecord(public, k[1], k[2], d) : k \in EnrichKeys, d \in {Null, "7"}}

ArrInfoRecordInputs ==
  {ArrInfoRecord(k[1], k[2], d) : k \in EnrichKeys, d \in {"1", "2"}}

Init ==
  /\ svc = [state |-> "none", dbName |-> <<>>, error |-> Null]
  /\ db \in SUBSET SchemataUniverse
  /\ calls = [c \in CallIds |-> IdleCall]
  /\ enr = NoEnrichment
  /\ witnessed = {}

\* ---------------------------------------------------------------- actions

\* new PgInfoService(pool, dbName, logger)
Construct(dbName) ==
  /\ svc.state = "none"
  /\ svc' = IF InvalidDbName(dbName)
            THEN [state |-> "failed", dbName |-> dbName, error |-> InvalidDbNameError]
            ELSE [state |-> "ok", dbName |-> dbName, error |-> Null]
  /\ UNCHANGED <<db, calls, enr, witnessed>>

\* the slots whose public call is awaiting pool.connect() or client.query()
InFlight == {d \in CallIds : calls[d].pc \in {"connect", "exec"}}

Begin(c, op, arg) == [IdleCall EXCEPT !.op = op, !.arg = arg]

\* pgInfo.query(text): a caller-supplied statement
CallQuery(c) ==
  /\ svc.state = "ok" /\ calls[c].pc = "idle"
  /\ calls' = [calls EXCEPT ![c] =
       StartQuery(Begin(c, "query", <<>>), Statement("raw", <<>>), "main")]
  /\ UNCHANGED <<svc, db, enr, witnessed>>

CallSchemataAll(c) ==
  /\ svc.state = "ok" /\ calls[c].pc = "idle"
  /\ calls' = [calls EXCEPT ![c] =
       StartQuery(Begin(c, "schemataAll", <<>>),
                  Statement("sqlSelectSchemataAll", <<svc.dbName>>), "main")]
  /\ UNCHANGED <<svc, db, enr, witnessed>>

CallSchemata(c) ==
  /\ svc.state = "ok" /\ calls[c].pc = "idle"
  /\ calls' = [calls EXCEPT ![c] =
       StartQuery(Begin(c, "schemata", <<>>),
                  Statement("sqlSelectSchemata", <<svc.dbName>>), "main")]
  /\ UNCHANGED <<svc, db, enr, witnessed>>

CallDomains(c) ==
  /\ svc.state = "ok" /\ calls[c].pc = "idle"
  /\ calls' = [calls EXCEPT ![c] =
       StartQuery(Begin(c, "domains", <<>>), Statement("sqlSelectDomains", <<>>), "main")]
  /\ UNCHANGED <<svc, db, enr, witnessed>>

\* pgInfo.types(catalog), up to its first await
CallTypes(c, catalog) ==
  /\ svc.state = "ok" /\ calls[c].pc = "idle"
  /\ calls' = [calls EXCEPT ![c] =
       IF IsDefaultCatalog(catalog)
       THEN StartQuery(Begin(c, "types", catalog), sqlSelectTypes(catalog), "main")
       ELSE StartQuery(Begin(c, "types", catalog),
                       Statement("sqlSelectSchemataAll", <<svc.dbName>>), "lookup")]
  /\ UNCHANGED <<svc, db, enr, witnessed>>

\* pgInfo.schema(schemaName).columns(), up to its first await
CallColumns(c, schemaName) ==
  /\ svc.state = "ok" /\ calls[c].pc = "idle"
  /\ calls' = [calls EXCEPT ![c] =
       StartQuery([Begin(c, "columns", <<>>) EXCEPT !.schemaName = schemaName],
                  Statement("sqlSelectColumns", <<svc.dbName, schemaName>>), "cols")]
  /\ UNCHANGED <<svc, db, enr, witnessed>>

\* pgInfo.schema(schemaName).table(tableName).columns(), up to its first await
CallTableColumns(c, schemaName, tableName) ==
  /\ svc.state = "ok" /\ calls[c].pc = "idle"
  /\ calls' = [calls EXCEPT ![c] =
       StartQuery([Begin(c, "tableColumns", <<>>) EXCEPT
                     !.schemaName = schemaName, !.tableName = tableName],
                  Statement("sqlSelectColumnsByTable",
                            <<svc.dbName, schemaName, tableName>>), "cols")]
  /\ UNCHANGED <<svc, db, enr, witnessed>>

\* pool.connect() resolves: the client is checked out and client.query() is invoked
ConnectResolves(c) ==
  /\ calls[c].pc = "connect"
  /\ calls' = [calls EXCEPT ![c].pc = "exec",
                            ![c].cur.checkouts = @ + 1,
                            ![c].cur.execs = @ + 1]
  /\ UNCHANGED <<svc, db, enr, witnessed>>

\* pool.connect() rejects
ConnectRejects(c, err, logThrows) ==
  /\ calls[c].pc = "connect"
  /\ calls' = [calls EXCEPT ![c] =
       Resume(calls[c], ConnectRejected(calls[c].cur, err, logThrows))]
  /\ witnessed' = witnessed \cup (InFlight \ {c})
  /\ UNCHANGED <<svc, db, enr>>

\* client.query() resolves
ExecResolves(c, resultRows, releaseThrows, logThrows) ==
  /\ calls[c].pc = "exec"
  /\ resultRows \in ResultsOf(calls[c].cur.stmt, db)
  /\ releaseThrows \/ ~logThrows
  /\ calls' = [calls EXCEPT ![c] =
       Resume(calls[c], ExecResolved(calls[c].cur, resultRows, releaseThrows, logThrows))]
  /\ UNCHANGED <<svc, db, enr, witnessed>>

\* client.query() rejects
ExecRejects(c, err, logThrows1, releaseThrows, logThrows2) ==
  /\ calls[c].pc = "exec"
  /\ (logThrows1 \/ releaseThrows) \/ ~logThrows2
  /\ calls' = [calls EXCEPT ![c] =
       Resume(calls[c], ExecRejected(calls[c].cur, err, logThrows1, releaseThrows, logThrows2))]
  /\ witnessed' = witnessed \cup (InFlight \ {c})
  /\ UNCHANGED <<svc, db, enr>>

\* the caller has taken the result or the error of a finished call
Finish(c) ==
  /\ calls[c].pc = "done"
  /\ calls' = [calls EXCEPT ![c] = IdleCall]
  /\ witnessed' = witnessed \ {c}
  /\ UNCHANGED <<svc, db, enr>>

Next ==
  \/ \E dbName \in SeqsUpTo(NameChars, MaxNameLen) : Construct(dbName)
  \/ \E c \in Sequential :
       \/ CallQuery(c)
       \/ CallSchemataAll(c)
       \/ CallSchemata(c)
       \/ CallDomains(c)
       \/ \E catalog \in CatalogArgs : CallTypes(c, catalog)
       \/ \E schemaName \in SchemaArgs : CallColumns(c, schemaName)
       \/ \E tableName \in TableNames : CallTableColumns(c, public, tableName)
       \/ ConnectResolves(c)
       \/ \E err \in ConnErrors, lt \in BOOLEAN : ConnectRejects(c, err, lt)
       \/ \E rows \in ResultsOf(calls[c].cur.stmt, db), rt \in BOOLEAN, lt \in BOOLEAN :
            ExecResolves(c, rows, rt, lt)
       \/ \E err \in ExecErrors, lt1 \in BOOLEAN, rt \in BOOLEAN, lt2 \in BOOLEAN :
            ExecRejects(c, err, lt1, rt, lt2)
       \/ Finish(c)

Spec == Init /\ [][Next]_vars

\* Several callers share one constructed service and one pool: their public
\* calls interleave at every await.
InitConcurrent ==
  /\ svc = [state |-> "ok", dbName |-> PoolDb, error |-> Null]
  /\ db = SchemataUniverse
  /\ calls = [c \in CallIds |-> IdleCall]
  /\ enr = NoEnrichment
  /\ witnessed = {}

NextConcurrent ==
  \E c \in CallIds :
    \/ CallQuery(c)
    \/ CallTypes(c, information_schema)
    \/ ConnectResolves(c)
    \/ \E err \in ConnErrors, lt \in BOOLEAN : ConnectRejects(c, err, lt)
    \/ \E rows \in ResultsOf(calls[c].cur.stmt, db), rt \in BOOLEAN, lt \in BOOLEAN :
         ExecResolves(c, rows, rt, lt)
    \/ \E err \in ExecErrors, lt1 \in BOOLEAN, rt \in BOOLEAN, lt2 \in BOOLEAN :
         ExecRejects(c, err, lt1, rt, lt2)
    \/ Finish(c)

SpecConcurrent == InitConcurrent /\ [][NextConcurrent]_vars

\* Table services for t and u, made from one schema service for public, whose
\* columns() calls interleave at every await. Connections, statements and
\* release() may fail; the logger does not throw here (it would only change
\* which error a failing call raises).
NextTables ==
  \E c \in CallIds :
    \/ \E tableName \in TableNames : CallTableColumns(c, public, tableName)
    \/ ConnectResolves(c)
    \/ \E err \in ConnErrors : ConnectRejects(c, err, FALSE)
    \/ \E rows \in ResultsOf(calls[c].cur.stmt, db), rt \in BOOLEAN :
         ExecResolves(c, rows, rt, FALSE)
    \/ \E err \in ExecErrors, rt \in BOOLEAN : ExecRejects(c, err, FALSE, rt, FALSE)
    \/ Finish(c)

SpecTables == InitConcurrent /\ [][NextTables]_vars

\* The two-query operations, types() with a catalog lookup and both columns(),
\* called by several callers on one service and one pool. Connections,
\* statements and release() may fail; the logger does not throw here (it
\* never touches a connection).
NextPool ==
  \E c \in CallIds :
    \/ CallTypes(c, information_schema)
    \/ CallColumns(c, pgboss)
    \/ CallTableColumns(c, pgboss, <<"t">>)
    \/ ConnectResolves(c)
    \/ \E err \in ConnErrors : ConnectRejects(c, err, FALSE)
    \/ \E rows \in ResultsOf(calls[c].cur.stmt, db), rt \in BOOLEAN :
         ExecResolves(c, rows, rt, FALSE)
    \/ \E err \in ExecErrors, rt \in BOOLEAN : ExecRejects(c, err, FALSE, rt, FALSE)
    \/ Finish(c)

SpecPool == InitConcurrent /\ [][NextPool]_vars

\* appendArrayDimension on arbitrary rows, run once and then once more with
\* the same probe rows
InitEnrich ==
  /\ svc = [state |-> "ok", dbName |-> PoolDb, error |-> Null]
  /\ db = {}
  /\ calls = [c \in CallIds |-> IdleCall]
  /\ enr \in {Enrichment(cs, ps) : cs \in SeqsUpTo(ColRecordInputs, MaxCols),
                                    ps \in SeqsUpTo(ArrInfoRecordInputs, MaxProbes)}
  /\ witnessed = {}

\* schema.appendArrayDimension(colRecords, arrInfoRecords)
AppendArrayDimension ==
  /\ enr.runs < 2
  /\ enr' = [enr EXCEPT
               !.colRecords = appendArrayDimension(enr.colRecords, enr.arrInfoRecords),
               !.first = IF enr.runs = 0
                         THEN appendArrayDimension(enr.colRecords, enr.arrInfoRecords)
                         ELSE @,
               !.runs = @ + 1]
  /\ UNCHANGED <<svc, db, calls, witnessed>>

NextEnrich == AppendArrayDimension

SpecEnrich == InitEnrich /\ [][NextEnrich]_vars

\* ------------------------------------------------- observations for claims

\* the invocations of query() a public call has completed
Completed(c) == calls[c].qhist

\* completed invocations followed by the one in flight, if any
Invocations(c) ==
  IF calls[c].pc \in {"connect", "exec"}
  THEN Append(calls[c].qhist, calls[c].cur)
  ELSE calls[c].qhist

RECURSIVE Concat(_)
Concat(ss) == IF ss = <<>> THEN <<>> ELSE Head(ss) \o Concat(Tail(ss))

\* every logger.error() tag of a public call, in order
CallLog(c) == Concat([i \in 1..Len(Invocations(c)) |-> Invocations(c)[i].log])

Count(s, x) == Cardinality({i \in 1..Len(s) : s[i] = x})

\* the public call of slot c has ended and its last query() is number i
LastOfDone(c, i) == calls[c].pc = "done" /\ i = Len(Completed(c))

\* ------------------------------------------------------------------ claims

\* C1: every invocation of query() whose pool.connect() succeeded invokes
\* client.release() exactly once before it completes (statement succeeded,
\* statement failed, logger threw, release threw); an invocation whose
\* pool.connect() failed never invokes release; while an invocation is in
\* flight release has been invoked at most once and never without a checkout.
C1_ReleaseExactlyOnce ==
  \A c \in CallIds :
    /\ \A i \in 1..Len(Completed(c)) :
         LET q == Completed(c)[i]
         IN /\ q.connects = 1
            /\ q.checkouts = (IF q.connErr = Null THEN 1 ELSE 0)
            /\ q.releases = q.checkouts
    /\ calls[c].cur.releases = 0
    /\ calls[c].cur.checkouts <= 1

\* C1 witness: a statement failed, the logger was called and release threw,
\* and release was still invoked exactly once.
C1_Witness ==
  \E c \in CallIds : \E i \in 1..Len(Completed(c)) :
    LET q == Completed(c)[i]
    IN q.execErr # Null /\ q.releaseThrew /\ q.releases = 1 /\ Len(q.log) = 2

\* C2: when pool.connect() fails in a public call, the call raises, the
\* logger's error() has been called exactly once in that call and with the
\* tag 'DB connection error', the failed query() made one acquisition attempt
\* and executed no statement, nothing follows it, and no rows are returned.
C2_ConnectionFailure ==
  \A c \in CallIds : \A i \in 1..Len(Completed(c)) :
    LET q == Completed(c)[i]
    IN q.connErr # Null =>
         /\ LastOfDone(c, i)
         /\ calls[c].outcome = "raised"
         /\ calls[c].result = <<>>
         /\ q.log = <<pgMsgDbConnError>>
         /\ CallLog(c) = <<pgMsgDbConnError>>
         /\ q.connects = 1
         /\ q.execs = 0
         /\ q.rows = <<>>

\* C2 witness: the second query() of types() failed to connect.
C2_Witness ==
  \E c \in CallIds :
    /\ calls[c].op = "types" /\ calls[c].pc = "done"
    /\ Len(Completed(c)) = 2
    /\ Completed(c)[2].connErr # Null
    /\ calls[c].outcome = "raised"

\* C3: when pool.connect() succeeds and the statement fails, error() is
\* called exactly once with the tag 'DB query error', release is invoked
\* (once), the statement was executed once, and the call raises and returns
\* no rows.
C3_QueryFailure ==
  \A c \in CallIds : \A i \in 1..Len(Completed(c)) :
    LET q == Completed(c)[i]
    IN q.execErr # Null =>
         /\ q.checkouts = 1
         /\ Count(q.log, pgMsgDbQueryError) = 1
         /\ q.log[1] = pgMsgDbQueryError
         /\ q.releases = 1
         /\ q.execs = 1
         /\ q.outcome = "raised"
         /\ LastOfDone(c, i)
         /\ calls[c].outcome = "raised"
         /\ calls[c].result = <<>>

\* C3 witness: the raw statement of query() failed and the call raised its error.
C3_Witness ==
  \E c \in CallIds :
    /\ calls[c].op = "query" /\ calls[c].pc = "done"
    /\ Completed(c)[1].execErr # Null
    /\ calls[c].error = Completed(c)[1].execErr

\* C4 (as claimed): every failure of pool.connect() or of the statement
\* reaches the caller of query() as the very error value the collaborator
\* produced.
C4_SameErrorReachesCaller ==
  \A c \in CallIds : \A i \in 1..Len(Completed(c)) :
    LET q == Completed(c)[i]
    IN /\ q.connErr # Null => (q.outcome = "raised" /\ q.error = q.connErr)
       /\ q.execErr # Null => (q.outcome = "raised" /\ q.error = q.execErr)

\* C5 (as claimed): when acquisition and execution both succeed, query()
\* returns exactly the rows the connection returned, in their order, and
\* error() is not called.
C5_RowsReturnedUnchanged ==
  \A c \in CallIds : \A i \in 1..Len(Completed(c)) :
    LET q == Completed(c)[i]
    IN (q.connErr = Null /\ q.execErr = Null) =>
         /\ q.outcome = "returned"
         /\ q.rows = q.connRows
         /\ q.log = <<>>

\* C6: constructing the service succeeds for every database name with at
\* least one non-whitespace character, and fails with an error, before any
\* I/O, for the empty string and for every whitespace-only string.
NonBlank(s) == \E i \in 1..Len(s) : s[i] \notin WhiteSpace

C6_ConstructorValidatesName ==
  svc.state # "none" =>
    /\ NonBlank(svc.dbName) => (svc.state = "ok" /\ svc.error = Null)
    /\ ~NonBlank(svc.dbName) =>
         /\ svc.state = "failed"
         /\ svc.error = InvalidDbNameError
         /\ \A c \in CallIds : calls[c] = IdleCall

\* C6 witness: a name of two whitespace characters was rejected.
C6_Witness ==
  /\ svc.state = "failed"
  /\ Len(svc.dbName) = 2
  /\ svc.dbName[1] # svc.dbName[2]

\* the invocations of query() of a call that carry the pg_type statement
TypesStatements(c) ==
  {i \in 1..Len(Invocations(c)) : Invocations(c)[i].stmt.text = "sqlSelectTypes"}

\* the schemataAll() of a types() call has returned
LookupReturned(c) ==
  /\ calls[c].op = "types"
  /\ Len(Completed(c)) >= 1
  /\ Completed(c)[1].stmt.text = "sqlSelectSchemataAll"
  /\ Completed(c)[1].outcome = "returned"

\* the schema names in the rows that schemataAll() returned to types()
Listed(c) == {r.schema_name : r \in Range(Completed(c)[1].rows)}

\* C7: types(catalog) hands the statement on <catalog>.pg_type to query()
\* only if catalog is 'pg_catalog' or is the schema_name of a row that
\* schemataAll() returned in the same call, and the interpolated name is
\* catalog; for any other name, once schemataAll() has returned, the call
\* fails with the invalid-catalog error and the statement is never issued.
C7_TypesOnlyForValidCatalog ==
  \A c \in CallIds :
    calls[c].op = "types" =>
      /\ \A i \in TypesStatements(c) :
           /\ Invocations(c)[i].stmt = sqlSelectTypes(calls[c].arg)
           /\ \/ calls[c].arg = pg_catalog
              \/ LookupReturned(c) /\ calls[c].arg \in Listed(c)
      /\ (calls[c].arg # pg_catalog /\ LookupReturned(c) /\ calls[c].arg \notin Listed(c)) =>
           /\ calls[c].pc = "done"
           /\ calls[c].outcome = "raised"
           /\ calls[c].error = InvalidCatalogError
           /\ TypesStatements(c) = {}

\* C7 witness: types('does_not_exist') on a catalog that lists other schemas
\* ended with the invalid-catalog error.
C7_Witness ==
  \E c \in CallIds :
    /\ calls[c].op = "types" /\ calls[c].arg = does_not_exist
    /\ LookupReturned(c) /\ Listed(c) # {}
    /\ calls[c].error = InvalidCatalogError

\* the case of C8: the full schema list contains 'information_schema' and
\* does not contain 'does_not_exist'
C8_Case(c) ==
  /\ LookupReturned(c)
  /\ information_schema \in Listed(c)
  /\ does_not_exist \notin Listed(c)

\* C8 (as claimed): in that case types('information_schema') and
\* types('does_not_exist') both fail with the invalid-catalog error and
\* neither issues a statement against pg_type.
C8_BothRejected ==
  \A c \in CallIds :
    (C8_Case(c) /\ calls[c].arg \in {information_schema, does_not_exist}) =>
      /\ TypesStatements(c) = {}
      /\ calls[c].pc = "done"
      /\ calls[c].error = InvalidCatalogError

\* C8 (amended): in that case types('does_not_exist') fails with the
\* invalid-catalog error and issues no statement against pg_type, while
\* types('information_schema') passes the validation: it never raises the
\* invalid-catalog error, it issues the statement on information_schema.pg_type
\* as its second query, and it ends as that query ends.
C8_UnknownRejectedListedAccepted ==
  \A c \in CallIds :
    C8_Case(c) =>
      /\ calls[c].arg = does_not_exist =>
           /\ TypesStatements(c) = {}
           /\ calls[c].pc = "done"
           /\ calls[c].error = InvalidCatalogError
      /\ calls[c].arg = information_schema =>
           /\ TypesStatements(c) = {2}
           /\ Invocations(c)[2].stmt = sqlSelectTypes(information_schema)
           /\ calls[c].error # InvalidCatalogError
           /\ calls[c].pc = "done" =>
                /\ Len(Completed(c)) = 2
                /\ calls[c].outcome = Completed(c)[2].outcome
                /\ calls[c].error = Completed(c)[2].error

\* C8 witness: types('information_schema') issued the pg_type statement and
\* failed with the error of its execution.
C8_Witness ==
  \E c \in CallIds :
    /\ C8_Case(c) /\ calls[c].arg = information_schema
    /\ calls[c].pc = "done"
    /\ Len(Completed(c)) = 2
    /\ Completed(c)[2].execs = 1
    /\ Completed(c)[2].execErr # Null
    /\ calls[c].error = Completed(c)[2].execErr

\* C9 (as claimed): whenever types() fails with the invalid-catalog error,
\* the call has checked out no connection and run no statement.
C9_InvalidCatalogBeforeAnyQuery ==
  \A c \in CallIds :
    calls[c].error = InvalidCatalogError =>
      \A i \in 1..Len(Completed(c)) :
        Completed(c)[i].checkouts = 0 /\ Completed(c)[i].execs = 0

\* C9 (amended): whenever types() fails with the invalid-catalog error, the
\* call has run exactly one query before raising it, the schemataAll()
\* lookup, which checked out one connection, executed its statement, released
\* the connection and returned rows that do not list the catalog; no
\* statement against pg_type was issued.
C9_InvalidCatalogAfterLookupOnly ==
  \A c \in CallIds :
    calls[c].error = InvalidCatalogError =>
      /\ calls[c].op = "types" /\ calls[c].arg # pg_catalog
      /\ calls[c].pc = "done" /\ calls[c].outcome = "raised"
      /\ Len(Completed(c)) = 1
      /\ LET q == Completed(c)[1]
         IN /\ q.stmt = Statement("sqlSelectSchemataAll", <<svc.dbName>>)
            /\ q.connects = 1 /\ q.checkouts = 1 /\ q.execs = 1 /\ q.releases = 1
            /\ q.outcome = "returned"
            /\ q.log = <<>>
            /\ calls[c].arg \notin Listed(c)

\* C9 witness: types('public') on a catalog without 'public' raised the
\* invalid-catalog error after its lookup had used a connection.
C9_Witness ==
  \E c \in CallIds :
    /\ calls[c].error = InvalidCatalogError
    /\ calls[c].arg = public
    /\ Completed(c)[1].checkouts = 1
    /\ Completed(c)[1].releases = 1

HasPrefix(s, p) == Len(s) >= Len(p) /\ SubSeq(s, 1, Len(p)) = p

\* C10: the result of schemata() has no row named 'information_schema' and
\* no row whose name starts with 'pg_'; schemataAll() returns every schema of
\* the database, those included; both return only rows whose catalog_name is
\* the service's dbName.
C10_SchemataExcludesReserved ==
  \A c \in CallIds :
    (calls[c].pc = "done" /\ calls[c].outcome = "returned") =>
      /\ calls[c].op = "schemata" =>
           \A i \in 1..Len(calls[c].result) :
             LET r == calls[c].result[i]
             IN /\ r.schema_name # information_schema
                /\ ~HasPrefix(r.schema_name, <<"p","g","_">>)
                /\ r.catalog_name = svc.dbName
      /\ calls[c].op = "schemataAll" =>
           Range(calls[c].result) = {r \in db : r.catalog_name = svc.dbName}

\* C10 witness: schemata() returned rows from a catalog that holds
\* 'information_schema' and 'pg_catalog'.
C10_Witness ==
  \E c \in CallIds :
    /\ calls[c].op = "schemata" /\ calls[c].pc = "done"
    /\ calls[c].outcome = "returned"
    /\ calls[c].result # <<>>
    /\ {information_schema, pg_catalog} \subseteq {r.schema_name : r \in db}

\* ------------------------------------------------ appendArrayDimension claims

SameKey(r1, r2) ==
  r1.table_name = r2.table_name /\ r1.column_name = r2.column_name

UniqueKeys(rows) ==
  \A i, j \in 1..Len(rows) : SameKey(rows[i], rows[j]) => i = j

\* the probe rows carrying the key of a column row
ProbesFor(colRecord) ==
  {j \in 1..Len(enr.probes) : SameKey(enr.probes[j], colRecord)}

Max(S) == CHOOSE x \in S : \A y \in S : y <= x

\* C11: when every (table_name, column_name) key occurs at most once among the
\* column rows and at most once among the probe rows, appendArrayDimension
\* leaves every column row that has a probe row of its key with that probe
\* row's array_dimension, and every other column row with the array_dimension
\* it had before.
C11_MatchedRowsEnriched ==
  (enr.runs >= 1 /\ UniqueKeys(enr.input) /\ UniqueKeys(enr.probes)) =>
     /\ Len(enr.first) = Len(enr.input)
     /\ \A i \in 1..Len(enr.input) :
          IF ProbesFor(enr.input[i]) = {}
          THEN enr.first[i].array_dimension = enr.input[i].array_dimension
          ELSE \A j \in ProbesFor(enr.input[i]) :
                 enr.first[i].array_dimension = enr.probes[j].array_dimension

\* rows t.a and t.b with a probe row for t.a: a is enriched, b stays null
C11_Witness ==
  /\ enr.runs >= 1
  /\ UniqueKeys(enr.input) /\ UniqueKeys(enr.probes)
  /\ \E i, k \in 1..Len(enr.input) :
       /\ ProbesFor(enr.input[i]) # {}
       /\ enr.input[i].array_dimension = Null
       /\ enr.first[i].array_dimension # Null
       /\ ProbesFor(enr.input[k]) = {}
       /\ enr.first[k].array_dimension = Null

\* C12: appendArrayDimension is idempotent: a second run with the same probe
\* rows leaves the column rows exactly as the first run left them, for every
\* input, repeated keys included.
C12_Idempotent ==
  enr.runs = 2 => enr.colRecords = enr.first

\* a second run over rows with repeated keys that the first run had changed
C12_Witness ==
  /\ enr.runs = 2
  /\ ~UniqueKeys(enr.probes)
  /\ ~UniqueKeys(enr.input)
  /\ enr.first # enr.input
  /\ \E i \in 1..Len(enr.input) :
       enr.input[i].array_dimension # Null /\ ProbesFor(enr.input[i]) # {}

\* C17: appendArrayDimension changes nothing but the array_dimension of column
\* rows that a probe row matches: the count and order of the column rows and
\* all their other fields stay, a row without a probe row of its key stays
\* whole, an unmatched probe row has no effect, and the probe rows stay as
\* they were.
C17_OnlyMatchedDimensionChanges ==
  enr.runs >= 1 =>
     /\ Len(enr.first) = Len(enr.input)
     /\ \A i \in 1..Len(enr.input) :
          /\ [enr.first[i] EXCEPT !.array_dimension = Null]
               = [enr.input[i] EXCEPT !.array_dimension = Null]
          /\ ProbesFor(enr.input[i]) = {} => enr.first[i] = enr.input[i]
     /\ enr.arrInfoRecords = enr.probes

\* a run with one probe row that matches nothing and one that changes a row
C17_Witness ==
  /\ enr.runs >= 1
  /\ \E j \in 1..Len(enr.probes) :
       \A i \in 1..Len(enr.input) : ~SameKey(enr.probes[j], enr.input[i])
  /\ \E i \in 1..Len(enr.input) : enr.first[i] # enr.input[i]

\* C20: each probe row changes at most one column row: of several column rows
\* with one key only the first can change, and it ends with the
\* array_dimension of the last probe row of that key.
C20_FirstRowLastProbe ==
  enr.runs >= 1 =>
     /\ Len(enr.first) = Len(enr.input)
     /\ \A i \in 1..Len(enr.input) :
          IF \E k \in 1..(i - 1) : SameKey(enr.input[k], enr.input[i])
          THEN enr.first[i] = enr.input[i]
          ELSE ProbesFor(enr.input[i]) # {} =>
                 enr.first[i].array_dimension
                   = enr.probes[Max(ProbesFor(enr.input[i]))].array_dimension
     /\ \A j \in 1..Len(enr.probes) :
          Cardinality({i \in 1..Len(enr.input) :
                         EnrichOne(enr.input, enr.probes[j])[i] # enr.input[i]}) <= 1

\* two column rows and two probe rows of one key, the probe rows disagreeing
C20_Witness ==
  /\ enr.runs >= 1
  /\ Len(enr.input) = 2 /\ SameKey(enr.input[1], enr.input[2])
  /\ Len(enr.probes) = 2 /\ SameKey(enr.probes[1], enr.probes[2])
  /\ SameKey(enr.probes[1], enr.input[1])
  /\ enr.probes[1].array_dimension # enr.probes[2].array_dimension
  /\ enr.first[1].array_dimension = enr.probes[2].array_dimension
  /\ enr.first[1] # enr.input[1]
  /\ enr.first[2] = enr.input[2]


\* ------------------------------------------------------- schemata(), complete

\* ascending schema_name order of a row sequence
AscendingSchemaName(rows) ==
  \A i \in 1..(Len(rows) - 1) : NameLess(rows[i].schema_name, rows[i + 1].schema_name)

\* C18 (as claimed): schemata() returns every schema of the service's database
\* whose name is not 'information_schema' and does not begin with the three
\* characters 'pg_', none of them omitted, in ascending schema_name order.
C18_SchemataReturnsAllUserSchemas ==
  \A c \in CallIds :
    (calls[c].op = "schemata" /\ calls[c].pc = "done"
       /\ calls[c].outcome = "returned") =>
      /\ {r \in db : /\ r.catalog_name = svc.dbName
                     /\ r.schema_name # information_schema
                     /\ ~HasPrefix(r.schema_name, <<"p","g","_">>)}
           \subseteq Range(calls[c].result)
      /\ AscendingSchemaName(calls[c].result)

\* ------------------------------------------------------ log tags of query()

\* C19 (as claimed): in every invocation of query() 'DB connection error' is
\* logged only when pool.connect() failed and nothing was checked out,
\* 'DB query error' only when the statement failed on a checked-out
\* connection, and no invocation logs both tags or one tag twice, whether or
\* not client.release() or the logger throws.
C19_TagsClassifyThePhase ==
  \A c \in CallIds : \A i \in 1..Len(Completed(c)) :
    LET q == Completed(c)[i]
    IN /\ Count(q.log, pgMsgDbConnError) >= 1 =>
            (q.connErr # Null /\ q.checkouts = 0)
       /\ Count(q.log, pgMsgDbQueryError) >= 1 =>
            (q.execErr # Null /\ q.checkouts = 1)
       /\ ~(Count(q.log, pgMsgDbConnError) >= 1 /\ Count(q.log, pgMsgDbQueryError) >= 1)
       /\ Count(q.log, pgMsgDbConnError) <= 1
       /\ Count(q.log, pgMsgDbQueryError) <= 1

\* ------------------------------------------------------------ sibling calls

\* every query() of the call in slot c connected and executed without failure
OwnQueriesSucceeded(c) ==
  /\ Len(Completed(c)) >= 1
  /\ \A i \in 1..Len(Completed(c)) :
       Completed(c)[i].connErr = Null /\ Completed(c)[i].execErr = Null

\* C15 (as claimed): a call that was in flight while a sibling call failed to
\* acquire or to execute, and whose own acquisitions and executions all
\* succeeded, returns exactly the rows of its own statement, having released
\* each of its connections exactly once.
C15_SiblingFailureStaysLocal ==
  \A c \in witnessed :
    (calls[c].pc = "done" /\ OwnQueriesSucceeded(c)) =>
      /\ calls[c].outcome = "returned"
      /\ calls[c].result = Completed(c)[Len(Completed(c))].connRows
      /\ \A i \in 1..Len(Completed(c)) :
           Completed(c)[i].checkouts = 1 /\ Completed(c)[i].releases = 1


\* ---------------------------------------------------------- columns() claims

ColumnsOps == {"columns", "tableColumns"}

ColumnStatements == {"sqlSelectColumns", "sqlSelectColumnsByTable"}

\* the call in slot c has ended by returning rows
Returned(c) == calls[c].pc = "done" /\ calls[c].outcome = "returned"

\* C13: the rows that PgTableService.columns() returns for table T of schema S
\* all have table_name T and table_schema S; they are the rows of the column
\* query, none added, and a row's array_dimension is only ever set from a
\* probe row of T itself, although the probe returns rows of every table of
\* S; calls of two table services with different table names, interleaved in
\* any way, never return a row of the other's table.
C13_TableColumnsStayInTable ==
  \A c \in CallIds :
    (calls[c].op = "tableColumns" /\ Returned(c)) =>
      LET main == Completed(c)[1].rows
          probe == Completed(c)[2].rows
          result == calls[c].result
      IN /\ \A i \in 1..Len(result) :
              /\ result[i].table_name = calls[c].tableName
              /\ result[i].table_schema = calls[c].schemaName
         /\ Len(result) = Len(main)
         /\ \A i \in 1..Len(result) :
              /\ [result[i] EXCEPT !.array_dimension = Null] = main[i]
              /\ result[i].array_dimension # Null =>
                   \E j \in 1..Len(probe) :
                     /\ probe[j].table_name = calls[c].tableName
                     /\ probe[j].column_name = result[i].column_name
                     /\ probe[j].array_dimension = result[i].array_dimension
         /\ \A d \in CallIds \ {c} :
              (calls[d].op = "tableColumns" /\ calls[d].tableName # calls[c].tableName) =>
                \A i \in 1..Len(result) : result[i].table_name # calls[d].tableName

\* the services for t and u have both returned, the call for t having been in
\* flight while a sibling failed; its probe carried a row of u, and t.a came
\* back with the dimension of t.a
C13_Witness ==
  \E c, d \in CallIds :
    /\ calls[c].op = "tableColumns" /\ Returned(c) /\ calls[c].tableName = <<"t">>
    /\ calls[d].op = "tableColumns" /\ Returned(d) /\ calls[d].tableName = <<"u">>
    /\ c \in witnessed
    /\ Len(calls[c].result) = 2 /\ calls[d].result # <<>>
    /\ \E j \in 1..Len(Completed(c)[2].rows) :
         Completed(c)[2].rows[j].table_name = <<"u">>
    /\ calls[c].result[1].array_dimension = "1"
    /\ calls[c].result[2].array_dimension = Null

\* C14: in both columns() operations, when the column query has returned and
\* the array probe then fails to acquire a connection or to execute, the call
\* raises the error with which the probe's query() failed and returns no
\* rows: the rows already fetched are not handed to the caller.
C14_ProbeFailureRaises ==
  \A c \in CallIds :
    (/\ calls[c].op \in ColumnsOps
     /\ Len(Completed(c)) = 2
     /\ Completed(c)[1].outcome = "returned"
     /\ (Completed(c)[2].connErr # Null \/ Completed(c)[2].execErr # Null)) =>
      LET q == Completed(c)[2]
      IN /\ calls[c].pc = "done"
         /\ calls[c].outcome = "raised"
         /\ calls[c].result = <<>>
         /\ calls[c].error # Null
         /\ calls[c].error = q.error
         /\ q.error \notin {LoggerFailure, ReleaseFailure} =>
              q.error \in {q.connErr, q.execErr}

\* schema columns(): the column query returned rows and the probe failed to
\* execute
C14_Witness ==
  \E c \in CallIds :
    /\ calls[c].op = "columns"
    /\ Len(Completed(c)) = 2
    /\ Completed(c)[1].outcome = "returned"
    /\ Completed(c)[1].rows # <<>>
    /\ calls[c].colRecords = Completed(c)[1].rows
    /\ Completed(c)[2].execErr # Null
    /\ calls[c].outcome = "raised"

\* C16: within one columns() call the column query completes before the
\* array probe is issued, the probe completes before appendArrayDimension
\* runs, and the call returns the enriched rows only after that; no third
\* query is issued, and when the column query fails the probe is never issued.
C16_ColumnsOrder ==
  \A c \in CallIds :
    calls[c].op \in ColumnsOps =>
      LET inv == Invocations(c)
      IN /\ Len(inv) \in {1, 2}
         /\ inv[1].stmt.text \in ColumnStatements
         /\ Len(inv) = 2 =>
              /\ inv[2].stmt.text = "sqlSelectTablesWithArrayColumns"
              /\ inv[1].outcome = "returned"
              /\ calls[c].colRecords # inv[1].rows => Returned(c)
         /\ inv[1].outcome = "raised" =>
              (Len(inv) = 1 /\ calls[c].pc = "done" /\ calls[c].outcome = "raised")
         /\ inv[1].outcome = "pending" => calls[c].colRecords = <<>>
         /\ calls[c].pc # "done" => calls[c].result = <<>>
         /\ Returned(c) =>
              /\ Len(Completed(c)) = 2
              /\ Completed(c)[2].outcome = "returned"
              /\ calls[c].result
                   = appendArrayDimension(Completed(c)[1].rows, Completed(c)[2].rows)

\* a columns() call that returned rows which enrichment had changed
C16_Witness ==
  \E c \in CallIds :
    /\ calls[c].op = "columns" /\ Returned(c)
    /\ Len(Completed(c)) = 2
    /\ calls[c].result # Completed(c)[1].rows
    /\ Len(calls[c].result) = Len(Completed(c)[1].rows)


\* ------------------------------------------------------ connections held

RECURSIVE SumOver(_, _)
SumOver(S, f) ==
  IF S = {} THEN 0
  ELSE LET x == CHOOSE y \in S : TRUE IN f[x] + SumOver(S \ {x}, f)

\* connections the call in slot c has checked out and not yet handed to
\* client.release()
Held(c) ==
  LET inv == Invocations(c)
  IN SumOver(1..Len(inv), [i \in 1..Len(inv) |-> inv[i].checkouts - inv[i].releases])

TotalHeld == SumOver(CallIds, [c \in CallIds |-> Held(c)])

\* C21: in every state each public call in flight holds at most one
\* checked-out connection: none while it awaits pool.connect(), also for the
\* second query of types() and columns(), one while its statement executes, and
\* none once it has ended; so the connections held never outnumber the calls
\* in flight and there is none when no call is in flight.
C21_AtMostOneConnectionPerCall ==
  /\ \A c \in CallIds :
       /\ Held(c) \in {0, 1}
       /\ calls[c].pc = "exec" => Held(c) = 1
       /\ calls[c].pc # "exec" => Held(c) = 0
  /\ TotalHeld <= Cardinality(InFlight)
  /\ InFlight = {} => TotalHeld = 0

\* two calls execute their statements at once, one of them the second query
\* of its call, the first query's connection having been released
C21_Witness ==
  \E c, d \in CallIds :
    /\ c # d
    /\ calls[c].pc = "exec" /\ calls[d].pc = "exec"
    /\ calls[c].op \in ColumnsOps /\ calls[c].phase = "probe"
    /\ Len(Completed(c)) = 1 /\ Completed(c)[1].releases = 1
    /\ Held(c) = 1 /\ Held(d) = 1
    /\ TotalHeld = Cardinality(InFlight)


====
